---- MODULE Spec2Model ----
(***************************************************************************)
(* A model of tetris_ai.py: the shape library (rotate, build_rotations),   *)
(* the board functions (valid_move, lock_piece, remove_lines,              *)
(* get_heights_and_holes), the heuristic (evaluate), the placement search  *)
(* (hard_drop, best_move) and the main loop that drives them.              *)
(*                                                                         *)
(* Lists are sequences; the source's 0-based coordinates are kept in the   *)
(* operators' arguments and turned into 1-based positions at the access.   *)
(* The heuristic's float weights are scaled by 10^6 to integers: two       *)
(* candidates of one search differ in score by a multiple of 10^-6 or not  *)
(* at all, so the order of the scaled integers is the order of the floats. *)
(***************************************************************************)
EXTENDS Integers, Sequences, FiniteSets

\* ------------------------------------------------------------------ CONFIG
COLS == 10

ROWS == 20

fall_speed == 1

\* pos_x, pos_y = 3, 0
SPAWN_X == 3

SPAWN_Y == 0

\* ------------------------------------------------------------------ bounds
\* Number of pieces the main loop locks before the model stops it.
MaxPieces == 3

\* Number of patterned rows of an input board of the function-level harness.
BandRows == 2

\* ------------------------------------------------------------------ SHAPES
SHAPES_BASE ==
  [ I |-> << <<1,1,1,1>> >>,
    O |-> << <<1,1>>, <<1,1>> >>,
    T |-> << <<0,1,0>>, <<1,1,1>> >>,
    S |-> << <<0,1,1>>, <<1,1,0>> >>,
    Z |-> << <<1,1,0>>, <<0,1,1>> >>,
    J |-> << <<1,0,0>>, <<1,1,1>> >>,
    L |-> << <<0,0,1>>, <<1,1,1>> >> ]

\* PIECES = list(ROTATIONS.keys()): the insertion order of SHAPES_BASE.
PIECES == << "I", "O", "T", "S", "Z", "J", "L" >>

PieceSet == { PIECES[i] : i \in 1..Len(PIECES) }

\* PIECE_TO_IDX = {p: i for i, p in enumerate(PIECES)}
PIECE_TO_IDX == [ p \in PieceSet |-> (CHOOSE i \in 1..Len(PIECES) : PIECES[i] = p) - 1 ]

\* A Python list index: i in 0..len-1 counts from the front, -len..-1 from the back.
PyIdx(list, i) == IF i < 0 THEN list[Len(list) + i + 1] ELSE list[i + 1]

\* rotate with the row reversal left out: a plain transposition.
rotate_transpose(shape) ==
  [ i \in 1..Len(shape[1]) |-> [ j \in 1..Len(shape) |-> shape[j][i] ] ]

\* zip(*shape[::-1]): row i of the result is column i of the shape read bottom-up.
rotate(shape) ==
  LET H == Len(shape)
      W == Len(shape[1])
  IN  [ i \in 1..W |-> [ j \in 1..H |-> shape[H + 1 - j][i] ] ]

SeqToSet(s) == { s[i] : i \in 1..Len(s) }

\* The for-loop of build_rotations: n iterations left, cur the matrix to add.
RECURSIVE build_loop(_, _, _)
build_loop(rots, cur, n) ==
  IF n = 0 THEN rots
  ELSE IF cur \in SeqToSet(rots) THEN rots
  ELSE build_loop(Append(rots, cur), rotate(cur), n - 1)

\* build_rotations without the duplicate test: always four entries.
build_rotations_nodedup(base) ==
  << base, rotate(base), rotate(rotate(base)), rotate(rotate(rotate(base))) >>

build_rotations(base) == build_loop(<< >>, base, 4)

ROTATIONS == [ p \in PieceSet |-> build_rotations(SHAPES_BASE[p]) ]

\* ------------------------------------------------------------------ BOARD
EmptyRow == [ c \in 1..COLS |-> 0 ]

create_grid == [ r \in 1..ROWS |-> EmptyRow ]

\* The occupied cells of a shape as (x, y) pairs, x the column and y the row
\* inside the matrix.
ShapeCells(shape) ==
  { <<x, y>> \in (0..(Len(shape[1]) - 1)) \X (0..(Len(shape) - 1)) :
      shape[y + 1][x + 1] # 0 }

\* valid_move with the "ny >= 0 and" guard dropped: g[ny][nx] with ny < 0
\* reads a row counted from the bottom of the grid.
RECURSIVE valid_scan_noguard(_, _, _, _, _)
valid_scan_noguard(grid, shape, ox, oy, k) ==
  LET W == Len(shape[1])
      x == k % W
      y == k \div W
      nx == x + ox
      ny == y + oy
  IN  IF k = Len(shape) * W THEN TRUE
      ELSE IF /\ shape[y + 1][x + 1] # 0
              /\ (nx < 0 \/ nx >= COLS \/ ny >= ROWS
                    \/ PyIdx(PyIdx(grid, ny), nx) # 0)
           THEN FALSE
           ELSE valid_scan_noguard(grid, shape, ox, oy, k + 1)

valid_move_noguard(grid, shape, ox, oy) == valid_scan_noguard(grid, shape, ox, oy, 0)

\* The nested for-loops of valid_move, k counting the cells of the matrix row
\* by row (y outer, x inner): return False at the first occupied cell that is
\* out of the columns, below the last row, or on a non-empty cell of a row >= 0.
RECURSIVE valid_scan(_, _, _, _, _)
valid_scan(grid, shape, ox, oy, k) ==
  LET W == Len(shape[1])
      x == k % W
      y == k \div W
      nx == x + ox
      ny == y + oy
  IN  IF k = Len(shape) * W THEN TRUE
      ELSE IF /\ shape[y + 1][x + 1] # 0
              /\ (nx < 0 \/ nx >= COLS \/ ny >= ROWS
                    \/ (ny >= 0 /\ PyIdx(PyIdx(grid, ny), nx) # 0))
           THEN FALSE
           ELSE valid_scan(grid, shape, ox, oy, k + 1)

\* valid_move(grid, shape, (ox, oy))
valid_move(grid, shape, ox, oy) == valid_scan(grid, shape, ox, oy, 0)

\* lock_piece indexes grid[y+oy][x+ox] unchecked: an index outside the list
\* raises IndexError.
lock_raises(shape, ox, oy) ==
  \E cell \in ShapeCells(shape) :
    \/ cell[1] + ox >= COLS \/ cell[1] + ox < -COLS
    \/ cell[2] + oy >= ROWS \/ cell[2] + oy < -ROWS

\* The nested for-loops of lock_piece, k counting the cells of the matrix row
\* by row: grid[y+oy][x+ox] = color_idx + 1 for every occupied cell (a
\* negative index counts from the end of the list, as in PyIdx).
RECURSIVE lock_scan(_, _, _, _, _, _)
lock_scan(grid, shape, ox, oy, color_idx, k) ==
  LET W == Len(shape[1])
      x == k % W
      y == k \div W
  IN  IF k = Len(shape) * W THEN grid
      ELSE IF shape[y + 1][x + 1] # 0
           THEN lock_scan([ grid EXCEPT ![((y + oy) % ROWS) + 1][((x + ox) % COLS) + 1]
                                          = color_idx + 1 ],
                          shape, ox, oy, color_idx, k + 1)
           ELSE lock_scan(grid, shape, ox, oy, color_idx, k + 1)

\* The grid after lock_piece(grid, shape, (ox, oy), color_idx).
lock_piece(grid, shape, ox, oy, color_idx) == lock_scan(grid, shape, ox, oy, color_idx, 0)

HasZero(row) == \E c \in 1..Len(row) : row[c] = 0

\* remove_lines that puts the new empty rows below the kept rows.
remove_lines_append(grid) ==
  LET new_grid == SelectSeq(grid, HasZero)
      lines == ROWS - Len(new_grid)
  IN  [ grid  |-> new_grid \o [ i \in 1..lines |-> EmptyRow ],
        lines |-> lines ]

\* remove_lines(grid) -> (new_grid, lines)
remove_lines(grid) ==
  LET new_grid == SelectSeq(grid, HasZero)
      lines == ROWS - Len(new_grid)
  IN  [ grid  |-> IF lines # 0
                  THEN [ i \in 1..lines |-> EmptyRow ] \o new_grid
                  ELSE new_grid,
        lines |-> lines ]

\* ------------------------------------------------------------------ EVALUATION
\* The inner loop of get_heights_and_holes over the rows r of column c:
\* acc = [h |-> heights[c], found |-> block_found, holes |-> holes_col].
RECURSIVE column_scan(_, _, _, _)
column_scan(grid, c, r, acc) ==
  IF r = ROWS THEN acc
  ELSE IF PyIdx(PyIdx(grid, r), c) # 0
       THEN column_scan(grid, c, r + 1,
              IF ~ acc.found THEN [ acc EXCEPT !.h = ROWS - r, !.found = TRUE ]
              ELSE acc)
       ELSE column_scan(grid, c, r + 1,
              IF acc.found THEN [ acc EXCEPT !.holes = @ + 1 ] ELSE acc)

column_stats(grid, c) == column_scan(grid, c, 0, [ h |-> 0, found |-> FALSE, holes |-> 0 ])

RECURSIVE SumSeq(_)
SumSeq(s) == IF s = << >> THEN 0 ELSE Head(s) + SumSeq(Tail(s))

\* The outer loop of get_heights_and_holes with the height counted from the
\* row below the topmost block.
RECURSIVE heights_loop_offby1(_, _, _, _)
heights_loop_offby1(grid, c, heights, total_holes) ==
  IF c = COLS THEN [ heights |-> heights, holes |-> total_holes ]
  ELSE LET cs == column_stats(grid, c)
       IN  heights_loop_offby1(grid, c + 1,
                               Append(heights, IF cs.found THEN cs.h - 1 ELSE 0),
                               total_holes + cs.holes)

get_heights_and_holes_offby1(grid) == heights_loop_offby1(grid, 0, << >>, 0)

\* The outer loop of get_heights_and_holes, for c in range(COLS), from c on.
RECURSIVE heights_loop(_, _, _, _)
heights_loop(grid, c, heights, total_holes) ==
  IF c = COLS THEN [ heights |-> heights, holes |-> total_holes ]
  ELSE LET cs == column_stats(grid, c)
       IN  heights_loop(grid, c + 1, Append(heights, cs.h), total_holes + cs.holes)

\* get_heights_and_holes(grid) -> (heights, total_holes)
get_heights_and_holes(grid) == heights_loop(grid, 0, << >>, 0)

Abs(n) == IF n < 0 THEN -n ELSE n

\* The loop of bumpiness_from_heights, for i in range(COLS-1), from i on.
RECURSIVE bump_loop(_, _, _)
bump_loop(heights, i, s) ==
  IF i = COLS - 1 THEN s
  ELSE bump_loop(heights, i + 1, s + Abs(PyIdx(heights, i) - PyIdx(heights, i + 1)))

bumpiness_from_heights(heights) == bump_loop(heights, 0, 0)

aggregate_height(heights) == SumSeq(heights)

\* evaluate(grid, lines), in units of 10^-6.
evaluate(grid, lines) ==
  LET hh == get_heights_and_holes(grid)
  IN  0 - 510660 * aggregate_height(hh.heights)
        + 760666 * lines
        - 356630 * hh.holes
        - 184483 * bumpiness_from_heights(hh.heights)

\* ------------------------------------------------------------------ AI
\* hard_drop that moves one row further than the last valid one.
RECURSIVE drop_loop_overshoot(_, _, _, _)
drop_loop_overshoot(grid, shape, col, row) ==
  IF valid_move(grid, shape, col, row + 1)
  THEN drop_loop_overshoot(grid, shape, col, row + 1)
  ELSE row + 1

hard_drop_overshoot(grid, shape, col) == drop_loop_overshoot(grid, shape, col, 0)

\* The while-loop of hard_drop.
RECURSIVE drop_loop(_, _, _, _)
drop_loop(grid, shape, col, row) ==
  IF valid_move(grid, shape, col, row + 1)
  THEN drop_loop(grid, shape, col, row + 1)
  ELSE row

hard_drop(grid, shape, col) == drop_loop(grid, shape, col, 0)

\* best_score: -float('inf') or a finite score.
NegInf == [ fin |-> FALSE, v |-> 0 ]

Fin(v) == [ fin |-> TRUE, v |-> v ]

\* score >= best_score in place of score > best_score.
score_ge(score, best) == score.fin /\ (~ best.fin \/ score.v >= best.v)

\* score > best_score
score_gt(score, best) == score.fin /\ (~ best.fin \/ score.v > best.v)

\* The simulation with temp bound to the list g itself: lock_piece writes
\* into the caller's rows.
simulate_inplace(g, shape, col, row, color_idx) ==
  LET locked == lock_piece(g, shape, col, row, color_idx)
      rl == remove_lines(locked)
  IN  [ g |-> locked, temp |-> rl.grid, lines |-> rl.lines ]

\* temp = [r[:] for r in g]; lock_piece(temp, ...); temp, lines = remove_lines(temp).
\* g is the caller's grid after these statements.
simulate(g, shape, col, row, color_idx) ==
  LET temp == g
      locked == lock_piece(temp, shape, col, row, color_idx)
      rl == remove_lines(locked)
  IN  [ g |-> g, temp |-> rl.grid, lines |-> rl.lines ]

\* ------------------------------------------------------------------ STATE
VARIABLES
  grid,               \* the authoritative board; in SpecFn the board of the call
  bag,                \* the pieces left in the shuffled bag
  current_piece,
  current_rotations,
  current_shape,
  pos_x,
  pos_y,
  target_y,
  score,
  lines_total,
  running,
  pc,                 \* "frame": at the top of the while-loop; "search": inside
                      \* best_move; "idle" / "done": before / after a call of SpecFn
  rot_idx,            \* best_move's locals while pc = "search"
  col,
  best_score,
  best_col,
  best_rot,
  res                 \* SpecFn: the call made on (grid, current_piece) and its result

locals == << rot_idx, col, best_score, best_col, best_rot >>

game == << bag, current_piece, current_rotations, current_shape,
           pos_x, pos_y, target_y, score, lines_total >>

vars == << grid, game, running, pc, locals, res >>

NoCall == [ op |-> "none" ]

\* ------------------------------------------------------------------ best_move
\* best_score = -float('inf'); best_col = 0; best_rot = 0, and the loops at
\* their first pass.
EnterSearch ==
  /\ pc' = "search"
  /\ rot_idx' = 0
  /\ col' = 0
  /\ best_score' = NegInf
  /\ best_col' = 0
  /\ best_rot' = 0

\* The locals are gone when best_move has returned.
LeaveSearch ==
  /\ rot_idx' = 0
  /\ col' = 0
  /\ best_score' = NegInf
  /\ best_col' = 0
  /\ best_rot' = 0

\* One pass of the loops of best_move(grid, current_piece, current_rotations):
\* the next rotation when the columns of this one are exhausted, else the
\* candidate (rot_idx, col): drop, re-validate (continue when invalid),
\* simulate on the copy, score, keep the strictly better one.
SearchStep ==
  /\ pc = "search"
  /\ rot_idx < Len(current_rotations)
  /\ LET shape == PyIdx(current_rotations, rot_idx)
         width == Len(PyIdx(shape, 0))
         max_col == COLS - width + 1
         row == hard_drop(grid, shape, col)
         sim == simulate(grid, shape, col, row, PIECE_TO_IDX[current_piece])
         sc == Fin(evaluate(sim.temp, sim.lines))
     IN  IF col >= max_col
         THEN /\ rot_idx' = rot_idx + 1
              /\ col' = 0
              /\ UNCHANGED << grid, best_score, best_col, best_rot >>
         ELSE /\ col' = col + 1
              /\ rot_idx' = rot_idx
              /\ IF ~ valid_move(grid, shape, col, row)
                 THEN UNCHANGED << grid, best_score, best_col, best_rot >>
                 ELSE /\ grid' = sim.g
                      /\ IF score_gt(sc, best_score)
                         THEN /\ best_score' = sc
                              /\ best_col' = col
                              /\ best_rot' = rot_idx
                         ELSE UNCHANGED << best_score, best_col, best_rot >>
  /\ UNCHANGED << game, running, pc, res >>

\* best_move is at its return statement.
SearchDone == pc = "search" /\ rot_idx = Len(current_rotations)

\* ------------------------------------------------------------------ MAIN
\* Pieces locked so far: four cells each, COLS cells gone with each cleared line.
Occupied(g) ==
  Cardinality({ rc \in (1..ROWS) \X (1..COLS) : g[rc[1]][rc[2]] # 0 })

PiecesLocked == (Occupied(grid) + COLS * lines_total) \div 4

\* grid = create_grid(); bag = PIECES[:]; random.shuffle(bag);
\* current_piece = next_piece(); ...  The order random.shuffle gives the bag is
\* read only by pop(0), so the bag is kept as the set of pieces still in it and
\* the shuffle's choice is made at the pop.
Init ==
  /\ grid = create_grid
  /\ current_piece \in PieceSet
  /\ bag = PieceSet \ { current_piece }
  /\ current_rotations = ROTATIONS[current_piece]
  /\ current_shape = PyIdx(current_rotations, 0)
  /\ pos_x = SPAWN_X
  /\ pos_y = SPAWN_Y
  /\ score = 0
  /\ lines_total = 0
  /\ target_y = 0
  /\ running = TRUE
  /\ pc = "frame"
  /\ rot_idx = 0
  /\ col = 0
  /\ best_score = NegInf
  /\ best_col = 0
  /\ best_rot = 0
  /\ res = NoCall

\* [0, 100, 300, 500, 800][min(lines, 4)]
LineScore(lines) == PyIdx(<< 0, 100, 300, 500, 800 >>, IF lines < 4 THEN lines ELSE 4)

\* The frame from "smooth visual falling" on, with pos_x = x, current_shape =
\* shape, target_y = ty and running = run: fall one step while pos_y < target_y;
\* else lock at (pos_x, target_y), clear the lines, score, take the next piece
\* from the bag and stop when it cannot spawn. An IndexError of lock_piece
\* ends the program.
RestOfFrame(x, shape, ty, run) ==
  /\ pc' = "frame"
  /\ res' = res
  /\ IF pos_y < ty
     THEN /\ pos_y' = pos_y + fall_speed
          /\ pos_x' = x
          /\ current_shape' = shape
          /\ target_y' = ty
          /\ running' = run
          /\ UNCHANGED << grid, bag, current_piece, current_rotations, score, lines_total >>
     ELSE /\ IF lock_raises(shape, x, ty)
             THEN /\ running' = FALSE
                  /\ pos_x' = x
                  /\ current_shape' = shape
                  /\ target_y' = ty
                  /\ pos_y' = ty
                  /\ UNCHANGED << grid, bag, current_piece, current_rotations,
                                  score, lines_total >>
             ELSE LET rl == remove_lines(lock_piece(grid, shape, x, ty,
                                                    PIECE_TO_IDX[current_piece]))
                      refill == IF bag = {} THEN PieceSet ELSE bag
                  IN  \E nxt \in refill :
                        /\ bag' = refill \ { nxt }
                        /\ grid' = rl.grid
                        /\ lines_total' = lines_total + rl.lines
                        /\ score' = score + LineScore(rl.lines)
                                              * ((lines_total + rl.lines) \div 10 + 1)
                        /\ current_piece' = nxt
                        /\ current_rotations' = ROTATIONS[nxt]
                        /\ current_shape' = PyIdx(ROTATIONS[nxt], 0)
                        /\ pos_x' = SPAWN_X
                        /\ pos_y' = SPAWN_Y
                        /\ target_y' = 0
                        /\ running' = (run /\ valid_move(rl.grid, PyIdx(ROTATIONS[nxt], 0),
                                                         SPAWN_X, SPAWN_Y))

\* The top of a frame with pos_y == 0: best_move is called. The frame's
\* "running = False" on a pygame.QUIT is read by nothing before the while test
\* that follows the frame, so the event is drawn where the frame ends (EndSearch).
BeginSearch ==
  /\ pc = "frame"
  /\ running
  /\ pos_y = 0
  /\ PiecesLocked < MaxPieces
  /\ EnterSearch
  /\ UNCHANGED << grid, game, running, res >>

\* best_move returns (best_col, best_rot) to the frame: pos_x = col,
\* current_shape = current_rotations[rot], target_y = hard_drop(...), and the
\* frame goes on.
EndSearch(quit) ==
  /\ SearchDone
  /\ res = NoCall
  /\ LET shape == PyIdx(current_rotations, best_rot)
     IN  RestOfFrame(best_col, shape, hard_drop(grid, shape, best_col), ~ quit)
  /\ LeaveSearch

\* A frame with pos_y != 0: the events are read and the piece falls or locks.
Frame(quit) ==
  /\ pc = "frame"
  /\ running
  /\ pos_y # 0
  /\ PiecesLocked < MaxPieces
  /\ RestOfFrame(pos_x, current_shape, target_y, ~ quit)
  /\ UNCHANGED locals

Next ==
  \/ BeginSearch
  \/ SearchStep
  \/ \E quit \in BOOLEAN : EndSearch(quit)
  \/ \E quit \in BOOLEAN : Frame(quit)

Spec == Init /\ [][Next]_vars

\* ------------------------------------------------------------------ FUNCTIONS
\* The functions called one at a time on a board and a piece type.  The boards:
\* a band of BandRows rows, each one of three row patterns, at the top or at
\* the bottom of an otherwise empty grid, and the empty grid.
Patterns == { "full", "left", "gap" }

PatternRow(p) ==
  [ c \in 1..COLS |->
      CASE p = "full" -> 1
        [] p = "left" -> IF c = 1 THEN 3 ELSE 0
        [] p = "gap"  -> IF c = 1 THEN 0 ELSE 7 ]

BandBoard(at, band) ==
  [ r \in 1..ROWS |->
      IF at = "top" /\ r <= BandRows THEN PatternRow(band[r])
      ELSE IF at = "bottom" /\ r > ROWS - BandRows
           THEN PatternRow(band[r - (ROWS - BandRows)])
           ELSE EmptyRow ]

Boards ==
  { create_grid } \cup
  { BandBoard(at, band) : at \in { "top", "bottom" }, band \in [ 1..BandRows -> Patterns ] }

\* The offsets valid_move is called with: the columns around both walls, the
\* rows around the top (from above the grid) and around the bottom.
ProbeCols == { -1, 0 } \cup ((COLS - 4)..COLS)

ProbeRows == ((-2)..1) \cup ((ROWS - 4)..ROWS)

InitFn ==
  /\ grid \in Boards
  /\ current_piece \in PieceSet
  /\ current_rotations = ROTATIONS[current_piece]
  /\ current_shape = PyIdx(current_rotations, 0)
  /\ bag = {}
  /\ pos_x = SPAWN_X
  /\ pos_y = SPAWN_Y
  /\ score = 0
  /\ lines_total = 0
  /\ target_y = 0
  /\ running = FALSE
  /\ pc = "idle"
  /\ rot_idx = 0
  /\ col = 0
  /\ best_score = NegInf
  /\ best_col = 0
  /\ best_rot = 0
  /\ res = NoCall

Return(r) ==
  /\ pc' = "done"
  /\ res' = r
  /\ UNCHANGED << grid, game, running, locals >>

CallValidMove(rot, ox, oy) ==
  /\ pc = "idle"
  /\ rot < Len(current_rotations)
  /\ Return([ op |-> "valid_move", rot |-> rot, ox |-> ox, oy |-> oy,
              ret |-> valid_move(grid, PyIdx(current_rotations, rot), ox, oy) ])

CallHardDrop(rot, c) ==
  /\ pc = "idle"
  /\ rot < Len(current_rotations)
  /\ c <= COLS - Len(PyIdx(PyIdx(current_rotations, rot), 0))
  /\ Return([ op |-> "hard_drop", rot |-> rot, col |-> c,
              ret |-> hard_drop(grid, PyIdx(current_rotations, rot), c) ])

CallRemoveLines ==
  /\ pc = "idle"
  /\ Return([ op |-> "remove_lines", ret |-> remove_lines(grid) ])

CallHeightsAndHoles ==
  /\ pc = "idle"
  /\ Return([ op |-> "get_heights_and_holes", ret |-> get_heights_and_holes(grid) ])

CallBuildRotations ==
  /\ pc = "idle"
  /\ Return([ op |-> "build_rotations",
              ret |-> build_rotations(SHAPES_BASE[current_piece]) ])

CallBestMove ==
  /\ pc = "idle"
  /\ EnterSearch
  /\ res' = [ op |-> "best_move", board |-> grid ]
  /\ UNCHANGED << grid, game, running >>

\* return best_col, best_rot
ReturnBestMove ==
  /\ SearchDone
  /\ res.op = "best_move"
  /\ pc' = "done"
  /\ res' = [ op |-> "best_move", board |-> res.board, ret |-> << best_col, best_rot >> ]
  /\ LeaveSearch
  /\ UNCHANGED << grid, game, running >>

NextFn ==
  \/ \E rot \in 0..3, ox \in ProbeCols, oy \in ProbeRows : CallValidMove(rot, ox, oy)
  \/ \E rot \in 0..3, c \in 0..(COLS - 1) : CallHardDrop(rot, c)
  \/ CallRemoveLines
  \/ CallHeightsAndHoles
  \/ CallBuildRotations
  \/ CallBestMove
  \/ SearchStep
  \/ ReturnBestMove

SpecFn == InitFn /\ [][NextFn]_vars

\* ------------------------------------------------------------------ PROPERTIES
\* The absolute (column, row) of the occupied cells of a matrix placed at (ox, oy).
AbsCells(shape, ox, oy) == { << cell[1] + ox, cell[2] + oy >> : cell \in ShapeCells(shape) }

\* The cell of a board at 0-based (column, row), for a position inside the board.
CellAt(g, c, r) == g[r + 1][c + 1]

InBoard(c, r) == c >= 0 /\ c < COLS /\ r >= 0 /\ r < ROWS

\* The candidates best_move enumerates, as (rotation index, column) pairs, and
\* those among them that pass the re-validation after the hard drop.
Candidates(rots) ==
  { rc \in (0..(Len(rots) - 1)) \X (0..(COLS - 1)) :
      rc[2] <= COLS - Len(rots[rc[1] + 1][1]) }

Feasible(g, rots) ==
  { rc \in Candidates(rots) :
      valid_move(g, rots[rc[1] + 1], rc[2], hard_drop(g, rots[rc[1] + 1], rc[2])) }

\* The score of the board a candidate leaves: locked at its drop row, lines cleared.
CandidateScore(g, piece, rots, rc) ==
  LET shape == rots[rc[1] + 1]
      rl == remove_lines(lock_piece(g, shape, rc[2], hard_drop(g, shape, rc[2]),
                                    PIECE_TO_IDX[piece]))
  IN  evaluate(rl.grid, rl.lines)

BestMoveReturned == pc = "done" /\ res.op = "best_move"

\* C1: best_move never mutates the board it is given: while the search runs and
\* when it has returned, every cell of grid equals its value at the call.
C1_BoardUnchanged == res.op = "best_move" => grid = res.board

\* C1 witness: a search that has returned a placement other than the initial
\* (0, 0), so a candidate was locked and cleared on the copy and won.
C1_Witness == BestMoveReturned /\ res.ret # << 0, 0 >> /\ grid = res.board

\* C2: with a feasible candidate, best_move returns a feasible candidate of
\* maximal score, the first such in the order rotation index, then column;
\* on the empty board with the I piece that is column 0, rotation 0.
C2_FirstArgMax ==
  (BestMoveReturned /\ Feasible(grid, current_rotations) # {}) =>
    LET F == Feasible(grid, current_rotations)
        got == << res.ret[2], res.ret[1] >>
        top == CandidateScore(grid, current_piece, current_rotations, got)
    IN  /\ got \in F
        /\ \A rc \in F :
             LET sc == CandidateScore(grid, current_piece, current_rotations, rc)
             IN  /\ sc <= top
                 /\ sc = top => \/ got[1] < rc[1]
                                \/ got[1] = rc[1] /\ got[2] <= rc[2]
        /\ (grid = create_grid /\ current_piece = "I") => res.ret = << 0, 0 >>

\* C2 witness: the search has returned on a board where the maximal score is
\* reached by a later candidate as well, so the tie-break decided.
C2_Witness ==
  /\ BestMoveReturned
  /\ \E rc \in Feasible(grid, current_rotations) :
       /\ rc # << res.ret[2], res.ret[1] >>
       /\ CandidateScore(grid, current_piece, current_rotations, rc)
            = CandidateScore(grid, current_piece, current_rotations,
                             << res.ret[2], res.ret[1] >>)

\* C3: when no candidate is feasible, what best_move returns is not a
\* (column, rotation index) the search can return for a feasible placement.
C3_NoPlacementSignalled ==
  (BestMoveReturned /\ Feasible(grid, current_rotations) = {}) =>
    << res.ret[2], res.ret[1] >> \notin Candidates(current_rotations)

RotationCount(k) == Cardinality({ p \in PieceSet : Len(ROTATIONS[p]) = k })

\* C4 as stated: once build_rotations has built a list, the lists of the seven
\* types have one rotation for O alone, two rotations for exactly two piece
\* types, four for every other type.
C4_TwoTypesWithTwo ==
  res.op = "build_rotations" =>
    /\ Len(ROTATIONS["O"]) = 1
    /\ RotationCount(1) = 1
    /\ RotationCount(2) = 2
    /\ \A p \in PieceSet : Len(ROTATIONS[p]) \in { 1, 2, 4 }

\* C4 amended: one rotation for O alone, two rotations for exactly three piece
\* types (I, S, Z), four for the other three (T, J, L); build_rotations called
\* on a type's base matrix returns a list of that length.
C4_ThreeTypesWithTwo ==
  /\ { p \in PieceSet : Len(ROTATIONS[p]) = 1 } = { "O" }
  /\ { p \in PieceSet : Len(ROTATIONS[p]) = 2 } = { "I", "S", "Z" }
  /\ { p \in PieceSet : Len(ROTATIONS[p]) = 4 } = { "T", "J", "L" }
  /\ res.op = "build_rotations" =>
       Len(res.ret) = CASE current_piece = "O" -> 1
                        [] current_piece \in { "I", "S", "Z" } -> 2
                        [] OTHER -> 4

\* C4 witness: build_rotations has returned two matrices for S.
C4_Witness == res.op = "build_rotations" /\ current_piece = "S" /\ Len(res.ret) = 2

\* C5: valid_move returns false exactly when an occupied cell is left or right
\* of the board, below it, or on a non-empty cell of a row >= 0; cells above
\* the board are checked against the columns only.
C5_ValidMoveIff ==
  res.op = "valid_move" =>
    (res.ret = FALSE <=>
       \E a \in AbsCells(PyIdx(current_rotations, res.rot), res.ox, res.oy) :
         \/ a[1] < 0
         \/ a[1] >= COLS
         \/ a[2] >= ROWS
         \/ a[2] >= 0 /\ InBoard(a[1], a[2]) /\ CellAt(grid, a[1], a[2]) # 0)

\* C5 witness: a placement partly above a non-empty board was found valid.
C5_Witness ==
  /\ res.op = "valid_move"
  /\ res.oy < 0
  /\ res.ret = TRUE
  /\ grid # create_grid

FullRow(row) == \A c \in 1..COLS : row[c] # 0

\* The i-th (from 1) non-full row of a board, from the top.
NthKept(g, i) ==
  CHOOSE r \in 1..ROWS :
    /\ ~ FullRow(g[r])
    /\ Cardinality({ q \in 1..(r - 1) : ~ FullRow(g[q]) }) = i - 1

\* C6: remove_lines returns the number k of full rows and a board of ROWS rows:
\* k empty rows on top, then the non-full rows in their order; for k = 0 the
\* board returned is the board given.
C6_RemoveLines ==
  res.op = "remove_lines" =>
    LET k == Cardinality({ r \in 1..ROWS : FullRow(grid[r]) })
        out == res.ret.grid
    IN  /\ res.ret.lines = k
        /\ Len(out) = ROWS
        /\ \A r \in 1..k : out[r] = EmptyRow
        /\ \A i \in 1..(ROWS - k) : out[k + i] = grid[NthKept(grid, i)]
        /\ k = 0 => out = grid

\* C6 witness: a full row with a non-empty row below it was removed.
C6_Witness ==
  /\ res.op = "remove_lines"
  /\ res.ret.lines >= 1
  /\ \E r \in 1..(ROWS - 1) : FullRow(grid[r]) /\ grid[r + 1] # EmptyRow
                                /\ ~ FullRow(grid[r + 1])

\* C7: the rotation list starts with the base matrix, has 1 to 4 pairwise
\* distinct entries, each the rotation of the one before, the rotation of the
\* last is the first, and four rotations of the base matrix give it back.
C7_RotationCycle ==
  res.op = "build_rotations" =>
    LET rots == res.ret
        base == SHAPES_BASE[current_piece]
    IN  /\ Len(rots) \in 1..4
        /\ rots[1] = base
        /\ \A i, j \in 1..Len(rots) : i # j => rots[i] # rots[j]
        /\ \A i \in 1..(Len(rots) - 1) : rots[i + 1] = rotate(rots[i])
        /\ rotate(rots[Len(rots)]) = rots[1]
        /\ rotate(rotate(rotate(rotate(base)))) = base

\* C7 witness: build_rotations has returned four matrices.
C7_Witness == res.op = "build_rotations" /\ Len(res.ret) = 4

\* The 0-based rows of the occupied cells of column c (0-based).
FilledRows(g, c) == { r \in 0..(ROWS - 1) : CellAt(g, c, r) # 0 }

TopRow(g, c) == CHOOSE r \in FilledRows(g, c) : \A q \in FilledRows(g, c) : r <= q

HoleCells(g) ==
  { cr \in (0..(COLS - 1)) \X (0..(ROWS - 1)) :
      /\ CellAt(g, cr[1], cr[2]) = 0
      /\ \E q \in FilledRows(g, cr[1]) : q < cr[2] }

\* C8: the height of a column is ROWS minus the row of its topmost occupied
\* cell, 0 for an empty column; the holes are the empty cells below the topmost
\* occupied cell of their column; the heights sum to the occupied cells plus
\* the holes.
C8_HeightsAndHoles ==
  res.op = "get_heights_and_holes" =>
    /\ Len(res.ret.heights) = COLS
    /\ \A c \in 0..(COLS - 1) :
         res.ret.heights[c + 1] =
           IF FilledRows(grid, c) = {} THEN 0 ELSE ROWS - TopRow(grid, c)
    /\ res.ret.holes = Cardinality(HoleCells(grid))
    /\ SumSeq(res.ret.heights) = Occupied(grid) + res.ret.holes

\* C8 witness: a board with holes and an empty column was measured.
C8_Witness ==
  /\ res.op = "get_heights_and_holes"
  /\ res.ret.holes > 0
  /\ \E c \in 1..COLS : res.ret.heights[c] = 0
  /\ \E c \in 1..COLS : res.ret.heights[c] > 0

\* C9: hard_drop returns a row r in 0..ROWS - height, the placement one row
\* further down is invalid, and when the placement at r is valid so is the
\* placement at every row from 0 to r.
C9_HardDropStraightDown ==
  res.op = "hard_drop" =>
    LET shape == PyIdx(current_rotations, res.rot)
        r == res.ret
    IN  /\ 0 <= r
        /\ r <= ROWS - Len(shape)
        /\ ~ valid_move(grid, shape, res.col, r + 1)
        /\ valid_move(grid, shape, res.col, r) =>
             \A k \in 0..r : valid_move(grid, shape, res.col, k)

\* The frame that comes next locks the piece: the arguments of its lock_piece.
LockPending ==
  IF SearchDone /\ res = NoCall
  THEN LET shape == PyIdx(current_rotations, best_rot)
           ty == hard_drop(grid, shape, best_col)
       IN  [ on |-> ~ (pos_y < ty), shape |-> shape, x |-> best_col, y |-> ty ]
  ELSE [ on |-> pc = "frame" /\ running /\ pos_y # 0 /\ ~ (pos_y < target_y),
         shape |-> current_shape, x |-> pos_x, y |-> target_y ]

====
